---- MODULE Spec2Model ----
(***************************************************************************)
(* Job / batch orchestration of the fishy server (src/server/api.ts).      *)
(*                                                                         *)
(* The server is one Node.js process: every handler and every continuation *)
(* after an `await` runs to its next suspension point without interleaving.*)
(* One action of this module is one such synchronous run.                  *)
(*                                                                         *)
(* Job ids and video paths are uuid-based in the code; here they are the   *)
(* integers 1, 2, ... in order of submission.  Original file names are the *)
(* integers 1..NumNames; BaseName(p) is the name derived from a path.      *)
(***************************************************************************)
EXTENDS Integers, Sequences, FiniteSets, TLC

\* ---------------------------------------------------------------- bounds
MaxJobs == 6
MaxVideos == 3
NumNames == 2
MaxSharedJobs == 1
MaxStreamJobs == 2
MaxStreamVideos == 1
MaxConns == 2
MaxFrames == 2
MaxQueueJobs == 5
MaxSaveJobs == 3

\* ------------------------------------------------------ program constants
MAX_CONCURRENT_JOBS == 4
maxAttempts == 60

VARIABLES
    analysisQueue,   \* api.ts:64   waiting single jobs, FIFO (job ids)
    activeJobCount,  \* api.ts:66   slots in use
    jobs,            \* jobManager's job table: id -> [status, stage]
    jobPc,           \* position of each detached analyzeVideoJob run
    submitted,       \* number of jobs enqueued so far (next id - 1)
    startOrder,      \* log: job ids in the order analyzeVideoJob was called
    history,         \* persisted history: the set of analysed video names
    batch,           \* jobManager's batch record (one batch is modelled)
    worker,          \* the batch worker: kind, position, locals
    response,        \* outcome of the last mutating batch request
    cancelInfo,      \* log: what was in flight / not yet taken at cancel
    conns,           \* progress streams: state, entity, what was written
    listeners,       \* jobManager's listeners: [topic, conn, handler]
    attempt,         \* one analyzeVideoFile call: position, locals, provider file
    saving           \* saveAnalysis calls between readFile and writeFile

vars == <<analysisQueue, activeJobCount, jobs, jobPc, submitted, startOrder,
          history, batch, worker, response, cancelInfo, conns, listeners,
          attempt, saving>>

jobVars == <<analysisQueue, activeJobCount, jobs, jobPc, submitted, startOrder>>
batchVars == <<batch, worker, response, cancelInfo>>

chanVars == <<conns, listeners>>
sideVars == <<attempt, saving>>

Names == 1..NumNames
JobIds == 1..MaxJobs
Paths == 1..MaxVideos
ConnIds == 1..MaxConns

\* the id of the one batch: distinct from every job id
BatchId == MaxJobs + 1

Range(s) == {s[i] : i \in 1..Len(s)}
Min(a, b) == IF a < b THEN a ELSE b
MinOf(S) == CHOOSE x \in S : \A y \in S : x <= y

\* basename(path) of an upload path: a name no client file carries
BaseName(p) == NumNames + p

\* the original file name of single job j
JobName(j) == ((j - 1) % NumNames) + 1

NoBatch == [status |-> "none", videos |-> <<>>, videoQueue |-> <<>>,
            completed |-> <<>>, failed |-> <<>>, skipped |-> <<>>,
            started |-> <<>>, uploadsComplete |-> FALSE]

\* no analyzeVideoFile call is being followed. `remote` is whether the file
\* uploaded by this call is on the provider; polls counts the files.get calls
\* that returned; frames is the number of timestamps still to extract.
NoAttempt == [pc |-> "idle", provider |-> "none", polls |-> 0, remote |-> FALSE,
              analysis |-> "none", species |-> 0, frames |-> 0,
              deleteFailed |-> FALSE, extraction |-> "none", error |-> "none"]

NoWorker == [kind |-> "none", pc |-> "none", analyzedNames |-> {},
             cur |-> [path |-> 0, originalName |-> 0], idx |-> 1,
             originalNames |-> <<>>]

\* ======================================================================
\* Progress channel (jobManager's emitter) and the progress streams
\* ======================================================================

\* a topic is an (event kind, entity id) pair: `progress:${jobId}`,
\* `batch:video_start:${batchId}`, ...
Topic(k, i) == [kind |-> k, id |-> i]
NoTopic == Topic("none", 0)

\* the payload of an event: a job's stage or outcome, or a batch video
JobEvent(k, j, st) == [topic |-> Topic(k, j), data |-> [stage |-> st, video |-> 0]]
BatchEvent(k, p) == [topic |-> Topic(k, BatchId), data |-> [stage |-> "none", video |-> p]]

\* failBatchVideo(batchId, videoPath, message)
VideoErrorEvent(p, msg) ==
    [topic |-> Topic("batch:video_error", BatchId), data |-> [stage |-> msg, video |-> p]]

\* startBatchVideo, then updateBatchVideoProgress('analyzing')
StartEvents(p) ==
    <<BatchEvent("batch:video_start", p), BatchEvent("batch:video_progress", p)>>

\* a stream: st in free/open/ended/closed; hook = the close hook is
\* registered; fresh = its handler ran in the latest step; out = what res.write
\* wrote to it in the latest step, each entry with the topic it was forwarded
\* from (NoTopic for the opening writes); due = log of the events published in
\* the latest step for its entity while it was open; others = how many were
\* published for other entities meanwhile
NoConn == [st |-> "free", kind |-> "none", id |-> 0, hook |-> FALSE,
           fresh |-> FALSE, out |-> <<>>, due |-> <<>>, others |-> 0]

\* a new step begins: the per-step fields of every stream start empty
Settled(cs) ==
    [c \in ConnIds |-> [cs[c] EXCEPT !.fresh = FALSE, !.out = <<>>, !.due = <<>>,
                                     !.others = 0]]

Listener(k, i, c, h) == [topic |-> Topic(k, i), conn |-> c, handler |-> h]

\* jobManager.on(...) x 3 of the job stream
JobSubscriptions_Swapped(c, j) ==
    {Listener("progress", j, c, "onComplete"),
     Listener("complete", j, c, "onProgress"),
     Listener("error", j, c, "onError")}
JobSubscriptions(c, j) ==
    {Listener("progress", j, c, "onProgress"),
     Listener("complete", j, c, "onComplete"),
     Listener("error", j, c, "onError")}

\* cleanup of the job stream: jobManager.off(...) x 3
JobCleanup_KeepsError(ls, c, j) ==
    ls \ {Listener("progress", j, c, "onProgress"),
          Listener("complete", j, c, "onComplete")}
JobCleanup(ls, c, j) ==
    ls \ {Listener("progress", j, c, "onProgress"),
          Listener("complete", j, c, "onComplete"),
          Listener("error", j, c, "onError")}

\* jobManager.on(...) x 10 of the batch stream
BatchSubscriptions(c) ==
    {Listener("batch:video_start", BatchId, c, "onVideoStart"),
     Listener("batch:video_progress", BatchId, c, "onVideoProgress"),
     Listener("batch:progress", BatchId, c, "onBatchProgress"),
     Listener("batch:video_complete", BatchId, c, "onVideoComplete"),
     Listener("batch:video_error", BatchId, c, "onVideoError"),
     Listener("batch:video_skipped", BatchId, c, "onVideoSkipped"),
     Listener("batch:video_added", BatchId, c, "onVideoAdded"),
     Listener("batch:uploads_complete", BatchId, c, "onUploadsComplete"),
     Listener("batch:complete", BatchId, c, "onBatchComplete"),
     Listener("batch:cancelled", BatchId, c, "onBatchCancelled")}

\* cleanup of the batch stream: jobManager.off(...) x 10
BatchCleanup(ls, c) ==
    ls \ {Listener("batch:video_start", BatchId, c, "onVideoStart"),
          Listener("batch:video_progress", BatchId, c, "onVideoProgress"),
          Listener("batch:progress", BatchId, c, "onBatchProgress"),
          Listener("batch:video_complete", BatchId, c, "onVideoComplete"),
          Listener("batch:video_error", BatchId, c, "onVideoError"),
          Listener("batch:video_skipped", BatchId, c, "onVideoSkipped"),
          Listener("batch:video_added", BatchId, c, "onVideoAdded"),
          Listener("batch:uploads_complete", BatchId, c, "onUploadsComplete"),
          Listener("batch:complete", BatchId, c, "onBatchComplete"),
          Listener("batch:cancelled", BatchId, c, "onBatchCancelled")}

\* the cleanup closure of stream c (cn = its record)
Cleanup(ls, c, cn) ==
    IF cn.kind = "job" THEN JobCleanup(ls, c, cn.id) ELSE BatchCleanup(ls, c)

\* the SSE event name a handler writes
SseName(h) ==
    CASE h = "onProgress" -> "progress"
      [] h = "onComplete" -> "complete"
      [] h = "onError" -> "error"
      [] h = "onVideoStart" -> "video_start"
      [] h = "onVideoProgress" -> "video_progress"
      [] h = "onBatchProgress" -> "batch_progress"
      [] h = "onVideoComplete" -> "video_complete"
      [] h = "onVideoError" -> "video_error"
      [] h = "onVideoSkipped" -> "video_skipped"
      [] h = "onVideoAdded" -> "video_added"
      [] h = "onUploadsComplete" -> "uploads_complete"
      [] h = "onBatchComplete" -> "batch_complete"
      [] h = "onBatchCancelled" -> "batch_cancelled"

\* the handlers that call cleanup() and res.end() after their write
EndsStream(h) ==
    h \in {"onComplete", "onError", "onBatchComplete", "onBatchCancelled"}

\* A channel state ch = [conns, listeners].

\* listener l runs for event e: res.write (lost on a stream that is not open),
\* then for a terminal handler cleanup() and res.end()
RunHandler(ch, l, e) ==
    LET c == l.conn
        cn == ch.conns[c]
        wrote == IF cn.st = "open"
                 THEN [cn EXCEPT !.out = Append(@, [event |-> SseName(l.handler),
                                                    data |-> e.data,
                                                    topic |-> e.topic])]
                 ELSE cn
    IN IF EndsStream(l.handler)
       THEN [conns |-> [ch.conns EXCEPT ![c] = [wrote EXCEPT !.st =
                                    IF @ = "open" THEN "ended" ELSE @]],
             listeners |-> Cleanup(ch.listeners, c, cn)]
       ELSE [conns |-> [ch.conns EXCEPT ![c] = wrote],
             listeners |-> ch.listeners]

\* emit delivers to every listener subscribed to the topic when emit is called
Subscribers_One(ls, t) ==
    IF {l \in ls : l.topic = t} = {} THEN {}
    ELSE {CHOOSE l \in ls : l.topic = t}
Subscribers(ls, t) == {l \in ls : l.topic = t}

RECURSIVE RunHandlers(_, _, _)
RunHandlers(ch, ls, e) ==
    IF ls = {} THEN ch
    ELSE LET l == CHOOSE x \in ls : TRUE
         IN RunHandlers(RunHandler(ch, l, e), ls \ {l}, e)

\* log: e was published while these streams were open
Noted(cs, e) ==
    [c \in ConnIds |->
        IF cs[c].st # "open" THEN cs[c]
        ELSE IF cs[c].id = e.topic.id
        THEN [cs[c] EXCEPT !.due = Append(@, e)]
        ELSE [cs[c] EXCEPT !.others = @ + 1]]

\* jobManager.emit(topic, payload)
Emit(ch, e) ==
    RunHandlers([ch EXCEPT !.conns = Noted(@, e)],
                Subscribers(ch.listeners, e.topic), e)

RECURSIVE EmitAll(_, _)
EmitAll(ch, evs) ==
    IF evs = <<>> THEN ch ELSE EmitAll(Emit(ch, Head(evs)), Tail(evs))

\* the events published, in order, by the jobManager calls of one step; with
\* no stream ever opened there is no listener and nothing to log
Publish(evs) ==
    IF \A c \in ConnIds : conns[c].st = "free"
    THEN UNCHANGED chanVars
    ELSE LET ch == EmitAll([conns |-> Settled(conns), listeners |-> listeners], evs)
         IN /\ conns' = ch.conns
            /\ listeners' = ch.listeners

Written(name, st, p) ==
    [event |-> name, data |-> [stage |-> st, video |-> p], topic |-> NoTopic]

\* the opening writes of the job stream; end = res.end() and return
JobGreeting_SnapshotFirst(job) ==
    IF job.status = "completed"
    THEN [out |-> <<Written("progress", job.stage, 0), Written("complete", "result", 0)>>,
          end |-> TRUE]
    ELSE IF job.status = "failed"
    THEN [out |-> <<Written("progress", job.stage, 0), Written("error", "error", 0)>>,
          end |-> TRUE]
    ELSE [out |-> <<Written("progress", job.stage, 0)>>, end |-> FALSE]
JobGreeting_Replay(job) ==
    IF job.status = "completed"
    THEN [out |-> <<Written("complete", "result", 0)>>, end |-> TRUE]
    ELSE IF job.status = "failed"
    THEN [out |-> <<Written("error", "error", 0)>>, end |-> TRUE]
    ELSE [out |-> <<Written("progress", "processing", 0),
                    Written("progress", job.stage, 0)>>, end |-> FALSE]
JobGreeting(job) ==
    IF job.status = "completed"
    THEN [out |-> <<Written("complete", "result", 0)>>, end |-> TRUE]
    ELSE IF job.status = "failed"
    THEN [out |-> <<Written("error", "error", 0)>>, end |-> TRUE]
    ELSE [out |-> IF job.stage # "none"
                  THEN <<Written("progress", job.stage, 0)>>
                  ELSE <<>>,
          end |-> FALSE]

\* the opening writes of the batch stream
BatchGreeting(b) ==
    LET status == Written("batch_status", b.status, Len(b.videos))
    IN IF b.status = "completed"
       THEN [out |-> <<status, Written("batch_complete", "none", 0)>>, end |-> TRUE]
       ELSE IF b.status = "cancelled"
       THEN [out |-> <<status, Written("batch_cancelled", "none", 0)>>, end |-> TRUE]
       ELSE [out |-> <<status>>, end |-> FALSE]

\* the handler returns after res.end(); otherwise it goes on to subscribe
Subscribes_Always(g) == TRUE
Subscribes(g) == ~g.end

\* a stream right after its handler ran with opening writes g
Opened(k, i, g) ==
    [st |-> IF g.end THEN "ended" ELSE "open",
     kind |-> k, id |-> i, hook |-> Subscribes(g),
     fresh |-> TRUE, out |-> g.out, due |-> <<>>, others |-> 0]

\* ======================================================================
\* Single-job dispatcher
\* ======================================================================

\* jobManager.createJob
CreateJob(js, j) == [js EXCEPT ![j] = [status |-> "queued", stage |-> "none"]]

\* jobManager.updateProgress
UpdateProgress(js, j, st) == [js EXCEPT ![j] = [status |-> "processing", stage |-> st]]

\* jobManager.completeJob
CompleteJob(js, j) == [js EXCEPT ![j].status = "completed"]

\* jobManager.failJob
FailJob(js, j) == [js EXCEPT ![j].status = "failed"]

\* the loop condition of processQueue
CanDispatch_OffByOne(d) == Len(d.q) > 0 /\ d.active <= MAX_CONCURRENT_JOBS
CanDispatch(d) == Len(d.q) > 0 /\ d.active < MAX_CONCURRENT_JOBS

\* analysisQueue.shift()
Dequeue_Pop(q) == [job |-> q[Len(q)], rest |-> SubSeq(q, 1, Len(q) - 1)]
Dequeue(q) == [job |-> Head(q), rest |-> Tail(q)]

\* processQueue: d = [q, active, pc, order]; starts jobs while a slot is free.
\* analyzeVideoJob runs synchronously up to its first await (analyzeVideoFile).
RECURSIVE ProcessQueue(_)
ProcessQueue(d) ==
    IF CanDispatch(d)
    THEN LET x == Dequeue(d.q)
         IN ProcessQueue([q |-> x.rest,
                          active |-> d.active + 1,
                          pc |-> [d.pc EXCEPT ![x.job] = "analyzing"],
                          order |-> Append(d.order, x.job)])
    ELSE d

Dispatcher == [q |-> analysisQueue, active |-> activeJobCount,
               pc |-> jobPc, order |-> startOrder]

SetDispatcher(d) ==
    /\ analysisQueue' = d.q
    /\ activeJobCount' = d.active
    /\ jobPc' = d.pc
    /\ startOrder' = d.order

\* the .finally callback of a started job
OnFinally_NoDispatch(d) == [d EXCEPT !.active = @ - 1]
OnFinally_NoRelease(d) == ProcessQueue(d)
OnFinally(d) == ProcessQueue([d EXCEPT !.active = @ - 1])

\* the end of the try block of analyzeVideoJob: completeJob(jobId, result)
OnJobDone_Silent(js, j) == js
OnJobDone(js, j) == CompleteJob(js, j)

\* the catch block of analyzeVideoJob: failJob
OnJobError_Completes(js, j) == CompleteJob(js, j)
OnJobError(js, j) == FailJob(js, j)

\* the end of enqueueJob: `analysisQueue.push(job); processQueue()`
Admit_NoDispatch(d, j) == [d EXCEPT !.q = Append(@, j)]
Admit(d, j) == ProcessQueue([d EXCEPT !.q = Append(@, j)])

\* `jobManager.getJob(jobId)` found the job (else the stream answers 404)
JobFound(j) == jobs[j].status # "none"

\* POST /analyze with a valid upload: enqueueJob
EnqueueJob ==
    /\ submitted < MaxJobs
    /\ LET j == submitted + 1
       IN /\ jobs' = UpdateProgress(CreateJob(jobs, j), j, "processing")
          /\ SetDispatcher(Admit(Dispatcher, j))
          /\ submitted' = j
          /\ Publish(<<JobEvent("progress", j, "processing")>>)
    /\ UNCHANGED sideVars
    /\ UNCHANGED <<history, batchVars>>

\* analyzeVideoFile resolved: the job goes on (getVideoRecordingDate) to
\* saveAnalysis
JobAnalysisOk(j) ==
    /\ jobPc[j] = "analyzing"
    /\ jobPc' = [jobPc EXCEPT ![j] = "saving"]
    /\ Publish(<<>>)
    /\ UNCHANGED sideVars
    /\ UNCHANGED <<analysisQueue, activeJobCount, jobs, submitted, startOrder,
                   history, batchVars>>

\* analyzeVideoFile rejected: catch -> failJob; the promise settles
JobAnalysisFail(j) ==
    /\ jobPc[j] = "analyzing"
    /\ jobPc' = [jobPc EXCEPT ![j] = "settled"]
    /\ jobs' = OnJobError(jobs, j)
    /\ Publish(<<JobEvent("error", j, "analysis failed")>>)
    /\ UNCHANGED sideVars
    /\ UNCHANGED <<analysisQueue, activeJobCount, submitted, startOrder,
                   history, batchVars>>

\* saveAnalysis resolved: completeJob
JobSaveOk(j) ==
    /\ jobPc[j] = "saving"
    /\ jobPc' = [jobPc EXCEPT ![j] = "settled"]
    /\ history' = history \cup {JobName(j)}
    /\ jobs' = OnJobDone(jobs, j)
    /\ Publish(<<JobEvent("complete", j, "result")>>)
    /\ UNCHANGED sideVars
    /\ UNCHANGED <<analysisQueue, activeJobCount, submitted, startOrder, batchVars>>

\* saveAnalysis rejected: catch -> failJob
JobSaveFail(j) ==
    /\ jobPc[j] = "saving"
    /\ jobPc' = [jobPc EXCEPT ![j] = "settled"]
    /\ jobs' = OnJobError(jobs, j)
    /\ Publish(<<JobEvent("error", j, "save failed")>>)
    /\ UNCHANGED sideVars
    /\ UNCHANGED <<analysisQueue, activeJobCount, submitted, startOrder,
                   history, batchVars>>

\* .finally: release the slot and run a dispatch step
JobFinally(j) ==
    /\ jobPc[j] = "settled"
    /\ SetDispatcher(OnFinally([Dispatcher EXCEPT !.pc[j] = "finished"]))
    /\ Publish(<<>>)
    /\ UNCHANGED sideVars
    /\ UNCHANGED <<jobs, submitted, history, batchVars>>

NextJobs ==
    \/ EnqueueJob
    \/ \E j \in JobIds : JobAnalysisOk(j)
    \/ \E j \in JobIds : JobAnalysisFail(j)
    \/ \E j \in JobIds : JobSaveOk(j)
    \/ \E j \in JobIds : JobSaveFail(j)
    \/ \E j \in JobIds : JobFinally(j)


\* ======================================================================
\* Batch record (jobManager) and batch workers
\* ======================================================================

Terminal(b) == b.status \in {"completed", "cancelled"}

\* videos started and not yet recorded completed or failed
InProgress(b) == Range(b.started) \ (Range(b.completed) \cup Range(b.failed))

\* videos neither started nor skipped so far
NotTaken(b) == Range(b.videos) \ (Range(b.started) \cup Range(b.skipped))

QueuedPaths(b) == {b.videoQueue[i].path : i \in 1..Len(b.videoQueue)}

\* jobManager.createEmptyBatch: lazy, queue empty, uploadsComplete = false
NewEmptyBatch == [NoBatch EXCEPT !.status = "created"]

\* jobManager.createBatch: eager, queue pre-filled, uploadsComplete = true
NewBatch(n) ==
    [NoBatch EXCEPT !.status = "created",
                    !.videos = [i \in 1..n |-> i],
                    !.videoQueue = [i \in 1..n |->
                                      [path |-> i, originalName |-> BaseName(i)]],
                    !.uploadsComplete = TRUE]

\* jobManager.addVideoToBatch (the case that returns true)
AddVideoToBatch(b, v) ==
    [b EXCEPT !.videos = Append(@, v.path), !.videoQueue = Append(@, v)]

\* jobManager.addVideoToBatch: false and no change on a completed or cancelled
\* batch
AddVideoResult(b, v) ==
    IF b.status \in {"completed", "cancelled"}
    THEN [added |-> FALSE, b |-> b]
    ELSE [added |-> TRUE, b |-> AddVideoToBatch(b, v)]

\* jobManager.markUploadsComplete
MarkUploadsCompleteOn(b) == [b EXCEPT !.uploadsComplete = TRUE]

\* jobManager.cancelBatch succeeds on a batch that is not terminal
CanCancel(b) == b.status \in {"created", "processing"}
CancelBatchOn(b) == [b EXCEPT !.status = "cancelled"]

\* jobManager.isBatchCancelled
IsBatchCancelled(b) == b.status = "cancelled"

\* jobManager.isBatchDone
IsBatchDone(b) == b.uploadsComplete /\ b.videoQueue = <<>>

\* jobManager.skipBatchVideo
SkipBatchVideo(b, p) == [b EXCEPT !.skipped = Append(@, p)]

\* jobManager.startBatchVideo (publishes video_start)
StartBatchVideo(b, p) ==
    [b EXCEPT !.started = Append(@, p),
              !.status = IF @ = "created" THEN "processing" ELSE @]

\* jobManager.completeBatchVideo
CompleteBatchVideo(b, p) == [b EXCEPT !.completed = Append(@, p)]

\* jobManager.failBatchVideo
FailBatchVideo(b, p) == [b EXCEPT !.failed = Append(@, p)]

\* jobManager.completeBatch
CompleteBatch(b) == [b EXCEPT !.status = "completed"]

\* A worker state s = [b, w, ev]: the batch record, the worker's locals and
\* the events jobManager published so far in this run of the worker.

\* after the loop: `if (!isBatchCancelled) completeBatch`, then the worker ends
MarkComplete_Unchecked(b) == CompleteBatch(b)
MarkComplete(b) == IF ~IsBatchCancelled(b) THEN CompleteBatch(b) ELSE b

Finish_NoComplete(s) == [s EXCEPT !.w.pc = "done"]
Finish(s) ==
    [b |-> MarkComplete(s.b),
     w |-> [s.w EXCEPT !.pc = "done"],
     ev |-> IF MarkComplete(s.b) # s.b
            THEN Append(s.ev, BatchEvent("batch:complete", 0))
            ELSE s.ev]

\* the loop's cancellation check at the top of every iteration
LoopCancelled_Never(b) == FALSE
LoopCancelled(b) == IsBatchCancelled(b)

\* the catch block of a worker: failBatchVideo
OnVideoError_Dropped(b, p) == b
OnVideoError(b, p) == FailBatchVideo(b, p)

\* queue empty and more input may come: the worker waits 100 ms, then polls
\* again
IdleWait_Stop(s) == Finish(s)
IdleWait(s) == [s EXCEPT !.w.pc = "wait"]

RECURSIVE LazyLoop(_)
RECURSIVE EagerLoop(_)

\* after the catch block the worker is at the top of its loop again
AfterCatch_Rethrow(s) == [s EXCEPT !.w.pc = "done"]
AfterCatch(s) == IF s.w.kind = "lazy" THEN LazyLoop(s) ELSE EagerLoop(s)

\* `await analyzeVideoFile(...)`: the worker suspends with the video in flight
AwaitAnalysis_NoAwait(s) == IF s.w.kind = "lazy" THEN LazyLoop(s) ELSE EagerLoop(s)
AwaitAnalysis(s) == s

\* the video the eager loop visits next: for (const videoPath of batch.videos)
EagerNext_Reversed(b, i) == b.videos[Len(b.videos) - i + 1]
EagerNext(b, i) == b.videos[i]

\* originalNames.get(videoPath) || basename(videoPath)
EagerName(w, p) ==
    IF p <= Len(w.originalNames) THEN w.originalNames[p] ELSE BaseName(p)

\* `if (jobManager.isBatchDone(batchId)) break`, reached on an empty queue
StopOnEmpty_Never(b) == FALSE
StopOnEmpty(b) == IsBatchDone(b)

\* processIncrementalBatch: the worker loop from the top of an iteration to
\* its next suspension point (the 100 ms timer or the analysis call) or its end
LazyLoop(s) ==
    IF LoopCancelled(s.b) THEN Finish(s)
    ELSE IF s.b.videoQueue = <<>>
    THEN IF StopOnEmpty(s.b)
         THEN Finish(s)
         ELSE IdleWait(s)
    ELSE LET v == Head(s.b.videoQueue)
             b1 == [s.b EXCEPT !.videoQueue = Tail(@)]
         IN IF v.originalName \in s.w.analyzedNames
            THEN LazyLoop([s EXCEPT !.b = SkipBatchVideo(b1, v.path),
                                    !.ev = Append(@, BatchEvent("batch:video_skipped",
                                                                v.path))])
            ELSE AwaitAnalysis(
                   [b |-> StartBatchVideo(b1, v.path),
                    w |-> [s.w EXCEPT !.analyzedNames = @ \cup {v.originalName},
                                      !.cur = v,
                                      !.pc = "analyzing"],
                    ev |-> s.ev \o StartEvents(v.path)])

\* processBatchVideos: the for-of loop over batch.videos, likewise
EagerLoop(s) ==
    IF s.w.idx > Len(s.b.videos) THEN Finish(s)
    ELSE IF LoopCancelled(s.b) THEN Finish(s)
    ELSE LET p == EagerNext(s.b, s.w.idx)
             n == EagerName(s.w, p)
             w1 == [s.w EXCEPT !.idx = @ + 1]
         IN IF n \in s.w.analyzedNames
            THEN EagerLoop([b |-> SkipBatchVideo(s.b, p), w |-> w1,
                            ev |-> Append(s.ev, BatchEvent("batch:video_skipped", p))])
            ELSE AwaitAnalysis(
                   [b |-> StartBatchVideo(s.b, p),
                    w |-> [w1 EXCEPT !.cur = [path |-> p, originalName |-> n],
                                     !.pc = "analyzing"],
                    ev |-> s.ev \o StartEvents(p)])

Loop(s) == IF s.w.kind = "lazy" THEN LazyLoop(s) ELSE EagerLoop(s)

WorkerState == [b |-> batch, w |-> worker, ev |-> <<>>]

SetWorkerState(s) ==
    /\ batch' = s.b
    /\ worker' = s.w
    /\ Publish(s.ev)

\* POST /batch/create: createEmptyBatch, then processIncrementalBatch runs up
\* to `await getHistory()`
PostBatchCreate ==
    /\ batch.status = "none"
    /\ batch' = NewEmptyBatch
    /\ worker' = [NoWorker EXCEPT !.kind = "lazy", !.pc = "init"]
    /\ response' = "ok"
    /\ Publish(<<>>)
    /\ UNCHANGED sideVars
    /\ UNCHANGED <<jobVars, history, cancelInfo>>

\* POST /batch/analyze with a non-empty list: createBatch, then
\* processBatchVideos runs up to `await getHistory()`
PostBatchAnalyze(names) ==
    /\ batch.status = "none"
    /\ batch' = NewBatch(Len(names))
    /\ worker' = [NoWorker EXCEPT !.kind = "eager", !.pc = "init",
                                  !.originalNames = names]
    /\ response' = "ok"
    /\ Publish(<<>>)
    /\ UNCHANGED sideVars
    /\ UNCHANGED <<jobVars, history, cancelInfo>>

\* the answer of POST /batch/:batchId/add: 400 when addVideoToBatch returned
\* false
AddResponse_AlwaysOk(added) == "ok"
AddResponse(added) == IF added THEN "ok" ELSE "rejected"

\* POST /batch/:batchId/add
PostBatchAdd(n) ==
    /\ batch.status # "none"
    /\ Terminal(batch) \/ Len(batch.videos) < MaxVideos
    /\ LET r == AddVideoResult(batch,
                  [path |-> Len(batch.videos) + 1, originalName |-> n])
       IN /\ batch' = r.b
          /\ response' = AddResponse(r.added)
          /\ Publish(IF r.added
                     THEN <<BatchEvent("batch:video_added", Len(batch.videos) + 1)>>
                     ELSE <<>>)
    /\ UNCHANGED sideVars
    /\ UNCHANGED <<jobVars, history, worker, cancelInfo>>

\* POST /batch/:batchId/complete: the handler marks the uploads complete
\* whatever the flag or the status is
OnComplete_Toggles(b) == [b EXCEPT !.uploadsComplete = ~@]
OnComplete(b) == MarkUploadsCompleteOn(b)

PostBatchComplete ==
    /\ batch.status # "none"
    /\ batch' = OnComplete(batch)
    /\ response' = "ok"
    /\ Publish(<<BatchEvent("batch:uploads_complete", 0)>>)
    /\ UNCHANGED sideVars
    /\ UNCHANGED <<jobVars, history, worker, cancelInfo>>

\* DELETE /batch/:batchId
DeleteBatch ==
    /\ batch.status # "none"
    /\ IF CanCancel(batch)
       THEN /\ batch' = CancelBatchOn(batch)
            /\ response' = "ok"
            /\ cancelInfo' = [cancelled |-> TRUE,
                              inFlight |-> InProgress(batch),
                              notTaken |-> NotTaken(batch)]
            /\ Publish(<<BatchEvent("batch:cancelled", 0)>>)
       ELSE /\ response' = "rejected"
            /\ Publish(<<>>)
            /\ UNCHANGED <<batch, cancelInfo>>
    /\ UNCHANGED sideVars
    /\ UNCHANGED <<jobVars, history, worker>>

\* getHistory() resolved: the worker takes its snapshot of the analysed names
\* and enters its loop
WorkerHistoryRead ==
    /\ worker.pc = "init"
    /\ SetWorkerState(Loop([WorkerState EXCEPT !.w.analyzedNames = history]))
    /\ UNCHANGED sideVars
    /\ UNCHANGED <<jobVars, history, response, cancelInfo>>

\* `continue` after the 100 ms wait: the next iteration reads the cancel flag
\* and the queue afresh
AfterWait_FlagOnly(s) == IF s.b.uploadsComplete THEN Finish(s) ELSE IdleWait(s)
AfterWait(s) == Loop(s)

\* the 100 ms timer of an idle lazy worker fired
WorkerTimer ==
    /\ worker.pc = "wait"
    /\ SetWorkerState(AfterWait(WorkerState))
    /\ UNCHANGED sideVars
    /\ UNCHANGED <<jobVars, history, response, cancelInfo>>

\* analyzeVideoFile resolved: the worker goes on to saveAnalysis
WorkerAnalysisOk ==
    /\ worker.pc = "analyzing"
    /\ worker' = [worker EXCEPT !.pc = "saving"]
    /\ Publish(<<BatchEvent("batch:video_progress", worker.cur.path)>>)
    /\ UNCHANGED sideVars
    /\ UNCHANGED <<jobVars, history, batch, response, cancelInfo>>

\* analyzeVideoFile rejected: catch -> failBatchVideo, next iteration
WorkerAnalysisFail ==
    /\ worker.pc = "analyzing"
    /\ SetWorkerState(AfterCatch([WorkerState EXCEPT
                              !.b = OnVideoError(@, worker.cur.path),
                              !.ev = <<VideoErrorEvent(worker.cur.path,
                                                   "analysis failed")>>]))
    /\ UNCHANGED sideVars
    /\ UNCHANGED <<jobVars, history, response, cancelInfo>>

\* saveAnalysis resolved: completeBatchVideo, next iteration
WorkerSaveOk ==
    /\ worker.pc = "saving"
    /\ history' = history \cup {worker.cur.originalName}
    /\ SetWorkerState(Loop([WorkerState EXCEPT
                              !.b = CompleteBatchVideo(@, worker.cur.path),
                              !.ev = <<BatchEvent("batch:video_complete",
                                                  worker.cur.path)>>]))
    /\ UNCHANGED sideVars
    /\ UNCHANGED <<jobVars, response, cancelInfo>>

\* saveAnalysis rejected: catch -> failBatchVideo, next iteration
WorkerSaveFail ==
    /\ worker.pc = "saving"
    /\ SetWorkerState(AfterCatch([WorkerState EXCEPT
                              !.b = OnVideoError(@, worker.cur.path),
                              !.ev = <<VideoErrorEvent(worker.cur.path,
                                                   "save failed")>>]))
    /\ UNCHANGED sideVars
    /\ UNCHANGED <<jobVars, history, response, cancelInfo>>

NameLists == UNION {[1..n -> Names] : n \in 1..MaxVideos}

NextBatch ==
    \/ PostBatchCreate
    \/ \E names \in NameLists : PostBatchAnalyze(names)
    \/ \E n \in Names : PostBatchAdd(n)
    \/ PostBatchComplete
    \/ DeleteBatch
    \/ WorkerHistoryRead
    \/ WorkerTimer
    \/ WorkerAnalysisOk
    \/ WorkerAnalysisFail
    \/ WorkerSaveOk
    \/ WorkerSaveFail

Next == NextJobs \/ NextBatch

\* a batch running beside single jobs (both write the persisted history)
SharedEnqueue == submitted < MaxSharedJobs /\ EnqueueJob

NextShared ==
    \/ NextBatch
    \/ SharedEnqueue
    \/ \E j \in JobIds : JobAnalysisOk(j)
    \/ \E j \in JobIds : JobAnalysisFail(j)
    \/ \E j \in JobIds : JobSaveOk(j)
    \/ \E j \in JobIds : JobSaveFail(j)
    \/ \E j \in JobIds : JobFinally(j)

\* ------------------------------------------------------ request checks

\* What the handlers test of a request body: `file` is whether multer stored
\* an upload, `model` whether MODEL_ALIASES has the requested model, `path`
\* whether the body has a path; `videos` is the videos field of the body.
AnalyzeRequests == [file : BOOLEAN, model : BOOLEAN]
BatchCreateRequests == [model : BOOLEAN]
BatchAddRequests == [path : BOOLEAN, originalName : Names]
RequestLists == UNION {[1..n -> Names] : n \in 0..MaxStreamVideos}
VideosFields ==
    {[present |-> FALSE, isArray |-> FALSE, items |-> <<>>],
     [present |-> TRUE, isArray |-> FALSE, items |-> <<>>]}
    \cup {[present |-> TRUE, isArray |-> TRUE, items |-> l] : l \in RequestLists}
BatchAnalyzeRequests == [videos : VideosFields, model : BOOLEAN]

\* POST /analyze: `if (!file)` 400, `if (!modelConfig)` 400
AnalyzeRequestOk_Any(req) == TRUE
AnalyzeRequestOk(req) ==
    IF ~req.file THEN FALSE
    ELSE IF ~req.model THEN FALSE
    ELSE TRUE

\* POST /batch/create: `if (!modelConfig)` 400
BatchCreateRequestOk(req) == req.model

\* POST /batch/:batchId/add: `if (!videoPath)` 400
BatchAddRequestOk(req) == req.path

\* POST /batch/analyze: `if (!videos || !Array.isArray(videos) ||
\* videos.length === 0)` 400, `if (!modelConfig)` 400
BatchAnalyzeRequestOk(req) ==
    IF ~req.videos.present \/ ~req.videos.isArray \/ Len(req.videos.items) = 0
    THEN FALSE
    ELSE IF ~req.model THEN FALSE
    ELSE TRUE

\* res.status(400).json(...); return
Reject ==
    /\ response' = "rejected"
    /\ UNCHANGED sideVars
    /\ UNCHANGED <<jobVars, history, batch, worker, cancelInfo, chanVars>>

PostAnalyze(req) ==
    IF AnalyzeRequestOk(req) THEN EnqueueJob ELSE Reject

PostBatchCreateRequest(req) ==
    IF BatchCreateRequestOk(req) THEN PostBatchCreate ELSE Reject

PostBatchAddRequest(req) ==
    IF BatchAddRequestOk(req) THEN PostBatchAdd(req.originalName) ELSE Reject

PostBatchAnalyzeRequest(req) ==
    IF BatchAnalyzeRequestOk(req) THEN PostBatchAnalyze(req.videos.items)
    ELSE Reject

\* requests to a server that runs single jobs, or one batch
NextRequests ==
    \/ \E req \in AnalyzeRequests : batch.status = "none" /\ PostAnalyze(req)
    \/ \E j \in JobIds : JobAnalysisOk(j)
    \/ \E j \in JobIds : JobAnalysisFail(j)
    \/ \E j \in JobIds : JobSaveOk(j)
    \/ \E j \in JobIds : JobSaveFail(j)
    \/ \E j \in JobIds : JobFinally(j)
    \/ \E req \in BatchCreateRequests :
          submitted = 0 /\ PostBatchCreateRequest(req)
    \/ \E req \in BatchAnalyzeRequests :
          submitted = 0 /\ PostBatchAnalyzeRequest(req)
    \/ \E req \in BatchAddRequests :
          /\ Len(batch.videos) < MaxStreamVideos
          /\ PostBatchAddRequest(req)
    \/ PostBatchComplete
    \/ DeleteBatch
    \/ WorkerHistoryRead
    \/ WorkerTimer
    \/ WorkerAnalysisOk
    \/ WorkerAnalysisFail
    \/ WorkerSaveOk
    \/ WorkerSaveFail

\* ----------------------------------------------------- progress streams

\* the stages analyzeVideoFile reports through onProgress, after stageMap
StageRank(st) ==
    CASE st = "uploading" -> 1
      [] st = "analyzing" -> 2
      [] st = "extracting" -> 3
      [] OTHER -> 0

\* the onProgress callback of a running single job: updateProgress. The
\* stages come in this order (uploading or none, analyzing, extracting or
\* none); the 'extracting-frames' callback, which maps to the stage the job
\* already has from enqueueJob, is not modelled.
JobProgress(j, st) ==
    /\ jobPc[j] = "analyzing"
    /\ StageRank(st) > StageRank(jobs[j].stage)
    /\ jobs' = UpdateProgress(jobs, j, st)
    /\ Publish(<<JobEvent("progress", j, st)>>)
    /\ UNCHANGED sideVars
    /\ UNCHANGED <<analysisQueue, activeJobCount, jobPc, submitted, startOrder,
                   history, batchVars>>

\* stream ids are handed out in order
NextConn(c) == conns[c].st = "free" /\ \A d \in ConnIds : d < c => conns[d].st # "free"

\* GET /analyze/:jobId/progress for an existing job
ConnectJob(c, j) ==
    /\ NextConn(c)
    /\ JobFound(j)
    /\ LET g == JobGreeting(jobs[j])
       IN /\ conns' = [Settled(conns) EXCEPT ![c] = Opened("job", j, g)]
          /\ listeners' = IF Subscribes(g)
                          THEN listeners \cup JobSubscriptions(c, j)
                          ELSE listeners
    /\ UNCHANGED sideVars
    /\ UNCHANGED <<jobVars, history, batchVars>>

\* GET /batch/:batchId/progress for the existing batch
ConnectBatch(c) ==
    /\ NextConn(c)
    /\ batch.status # "none"
    /\ LET g == BatchGreeting(batch)
       IN /\ conns' = [Settled(conns) EXCEPT ![c] = Opened("batch", BatchId, g)]
          /\ listeners' = IF Subscribes(g)
                          THEN listeners \cup BatchSubscriptions(c)
                          ELSE listeners
    /\ UNCHANGED sideVars
    /\ UNCHANGED <<jobVars, history, batchVars>>

\* the observer disconnects: req 'close' runs the cleanup hook if registered
CloseConn(c) ==
    /\ conns[c].st \in {"open", "ended"}
    /\ conns' = [Settled(conns) EXCEPT ![c].st = "closed"]
    /\ listeners' = IF conns[c].hook
                    THEN Cleanup(listeners, c, conns[c])
                    ELSE listeners
    /\ UNCHANGED sideVars
    /\ UNCHANGED <<jobVars, history, batchVars>>

\* the streams of one entity with several observers: the first single job, or
\* the batch
StreamEnqueue == batch.status = "none" /\ submitted = 0 /\ EnqueueJob
StreamBatchCreate == submitted = 0 /\ PostBatchCreate
StreamBatchAnalyze(names) ==
    submitted = 0 /\ Len(names) <= MaxStreamVideos /\ PostBatchAnalyze(names)
StreamBatchAdd(n) == Len(batch.videos) < MaxStreamVideos /\ PostBatchAdd(n)

Stages == {"uploading", "analyzing", "extracting"}

NextStream ==
    \/ StreamEnqueue
    \/ \E j \in JobIds, st \in Stages : JobProgress(j, st)
    \/ \E j \in JobIds : JobAnalysisOk(j)
    \/ \E j \in JobIds : JobAnalysisFail(j)
    \/ \E j \in JobIds : JobSaveOk(j)
    \/ \E j \in JobIds : JobSaveFail(j)
    \/ \E j \in JobIds : JobFinally(j)
    \/ StreamBatchCreate
    \/ \E names \in NameLists : StreamBatchAnalyze(names)
    \/ \E n \in Names : StreamBatchAdd(n)
    \/ PostBatchComplete
    \/ DeleteBatch
    \/ WorkerHistoryRead
    \/ WorkerTimer
    \/ WorkerAnalysisOk
    \/ WorkerAnalysisFail
    \/ WorkerSaveOk
    \/ WorkerSaveFail
    \/ \E c \in ConnIds, j \in JobIds : ConnectJob(c, j)
    \/ \E c \in ConnIds : ConnectBatch(c)
    \/ \E c \in ConnIds : CloseConn(c)

\* one observer and several entities: single jobs, or the batch
CrossEnqueue == batch.status = "none" /\ submitted < MaxStreamJobs /\ EnqueueJob

NextCross ==
    \/ CrossEnqueue
    \/ \E j \in JobIds, st \in Stages : JobProgress(j, st)
    \/ \E j \in JobIds : JobAnalysisOk(j)
    \/ \E j \in JobIds : JobAnalysisFail(j)
    \/ \E j \in JobIds : JobSaveOk(j)
    \/ \E j \in JobIds : JobSaveFail(j)
    \/ \E j \in JobIds : JobFinally(j)
    \/ StreamBatchCreate
    \/ \E names \in NameLists : StreamBatchAnalyze(names)
    \/ \E n \in Names : StreamBatchAdd(n)
    \/ PostBatchComplete
    \/ DeleteBatch
    \/ WorkerHistoryRead
    \/ WorkerTimer
    \/ WorkerAnalysisOk
    \/ WorkerAnalysisFail
    \/ WorkerSaveOk
    \/ WorkerSaveFail
    \/ \E j \in JobIds : ConnectJob(1, j)
    \/ ConnectBatch(1)
    \/ CloseConn(1)

\* single jobs up to the dispatcher's limit beside one small batch
LoadEnqueue == submitted < MAX_CONCURRENT_JOBS /\ EnqueueJob
LoadBatchAnalyze(names) == Len(names) <= MaxStreamVideos /\ PostBatchAnalyze(names)

NextLoad ==
    \/ LoadEnqueue
    \/ \E j \in JobIds : JobAnalysisOk(j)
    \/ \E j \in JobIds : JobAnalysisFail(j)
    \/ \E j \in JobIds : JobSaveOk(j)
    \/ \E j \in JobIds : JobSaveFail(j)
    \/ \E j \in JobIds : JobFinally(j)
    \/ PostBatchCreate
    \/ \E names \in NameLists : LoadBatchAnalyze(names)
    \/ \E n \in Names : StreamBatchAdd(n)
    \/ PostBatchComplete
    \/ DeleteBatch
    \/ WorkerHistoryRead
    \/ WorkerTimer
    \/ WorkerAnalysisOk
    \/ WorkerAnalysisFail
    \/ WorkerSaveOk
    \/ WorkerSaveFail

\* ------------------------------------------- one analyzeVideoFile call

\* The call made for the first single job, followed through its awaits
\* (analyzer.ts analyzeVideoFile, gemini.ts uploadVideo / waitForFileActive /
\* deleteFile, video.ts checkFfmpeg / extractFrame).

Providers == {"gemini", "openai"}
FileStates == {"ACTIVE", "FAILED", "PROCESSING"}

\* `throw`: the call rejects with this error
Throws(a, msg) == [a EXCEPT !.pc = "failed", !.error = msg]

\* analyzeVideoFile is called by analyzeVideoJob; it runs up to its first
\* await: getVideoDuration (Gemini) or extractFramesAsBase64 (OpenAI)
StartAttempt(pr) ==
    /\ attempt.pc = "idle"
    /\ jobPc[1] = "analyzing"
    /\ attempt' = [attempt EXCEPT !.provider = pr,
                                  !.pc = IF pr = "gemini" THEN "duration"
                                         ELSE "frames64"]
    /\ UNCHANGED <<jobVars, history, batchVars, chanVars, saving>>

\* getVideoDuration returned or threw; then uploadVideo is awaited
DurationDone(ok) ==
    /\ attempt.pc = "duration"
    /\ attempt' = IF ok THEN [attempt EXCEPT !.pc = "upload"]
                  ELSE Throws(attempt, "duration")
    /\ UNCHANGED <<jobVars, history, batchVars, chanVars, saving>>

\* extractFramesAsBase64 returned or threw; then analyzeWithOpenAI is awaited
Frames64Done(ok) ==
    /\ attempt.pc = "frames64"
    /\ attempt' = IF ok THEN [attempt EXCEPT !.pc = "analyze"]
                  ELSE Throws(attempt, "frames")
    /\ UNCHANGED <<jobVars, history, batchVars, chanVars, saving>>

\* ai.files.upload threw (nothing is stored), or returned a file: without a
\* uri uploadVideo throws, else it calls waitForFileActive, which runs up to
\* its first files.get
UploadDone(ok, uri) ==
    /\ attempt.pc = "upload"
    /\ attempt' = IF ~ok THEN Throws(attempt, "upload")
                  ELSE IF ~uri
                  THEN Throws([attempt EXCEPT !.remote = TRUE], "no URI")
                  ELSE [attempt EXCEPT !.remote = TRUE, !.pc = "poll"]
    /\ UNCHANGED <<jobVars, history, batchVars, chanVars, saving>>

\* the loop condition of waitForFileActive after n polls
PollAgain_Always(n) == TRUE
PollAgain(n) == n < maxAttempts

\* what waitForFileActive does with the state a poll reported: return the
\* file (uploadVideo returns and analyzeVideo is awaited), throw, or wait
OnFileState(a, st) ==
    IF st = "ACTIVE" THEN [a EXCEPT !.polls = @ + 1, !.pc = "analyze"]
    ELSE IF st = "FAILED"
    THEN Throws([a EXCEPT !.polls = @ + 1], "processing failed")
    ELSE [a EXCEPT !.polls = @ + 1, !.pc = "wait"]

\* ai.files.get returned the file in state st
Poll(st) ==
    /\ attempt.pc = "poll"
    /\ attempt' = OnFileState(attempt, st)
    /\ UNCHANGED <<jobVars, history, batchVars, chanVars, saving>>

\* ai.files.get threw
PollRejects ==
    /\ attempt.pc = "poll"
    /\ attempt' = Throws(attempt, "get")
    /\ UNCHANGED <<jobVars, history, batchVars, chanVars, saving>>

\* the pollInterval timer fired: attempt++, then the loop condition
PollTimer ==
    /\ attempt.pc = "wait"
    /\ attempt' = IF PollAgain(attempt.polls)
                  THEN [attempt EXCEPT !.pc = "poll"]
                  ELSE Throws(attempt, "timeout")
    /\ UNCHANGED <<jobVars, history, batchVars, chanVars, saving>>

\* after the provider returned: the species are mapped and, if there are any,
\* extractSpeciesFrames runs up to `await checkFfmpeg()`
AfterAnalysis(a) ==
    IF a.species > 0 THEN [a EXCEPT !.pc = "ffmpeg"]
    ELSE [a EXCEPT !.pc = "returned"]

\* analyzeVideo / analyzeWithOpenAI returned a response with sp species and n
\* timestamps, or threw. With Gemini the finally block awaits deleteFile.
AnalysisDone(ok, sp, n) ==
    /\ attempt.pc = "analyze"
    /\ LET a == [attempt EXCEPT !.analysis = IF ok THEN "ok" ELSE "error",
                                !.species = IF ok THEN sp ELSE 0,
                                !.frames = IF ok /\ sp > 0 THEN n ELSE 0]
       IN attempt' = IF attempt.provider = "gemini"
                     THEN [a EXCEPT !.pc = "delete"]
                     ELSE IF ok THEN AfterAnalysis(a)
                     ELSE Throws(a, "analysis")
    /\ UNCHANGED <<jobVars, history, batchVars, chanVars, saving>>

\* deleteFile returned (true, or false when ai.files.delete threw); the
\* finally block ends and the error of analyzeVideo, if any, goes on
DeleteDone(ok) ==
    /\ attempt.pc = "delete"
    /\ LET a == [attempt EXCEPT !.remote = IF ok THEN FALSE ELSE @,
                                !.deleteFailed = ~ok]
       IN attempt' = IF attempt.analysis = "ok" THEN AfterAnalysis(a)
                     ELSE Throws(a, "analysis")
    /\ UNCHANGED <<jobVars, history, batchVars, chanVars, saving>>

\* checkFfmpeg returned: without ffmpeg extractSpeciesFrames returns, else the
\* first mkdir is awaited
FfmpegChecked(has) ==
    /\ attempt.pc = "ffmpeg"
    /\ attempt' = IF has THEN [attempt EXCEPT !.pc = "mkdir"]
                  ELSE [attempt EXCEPT !.pc = "returned",
                                       !.extraction = "no ffmpeg"]
    /\ UNCHANGED <<jobVars, history, batchVars, chanVars, saving>>

\* a rejected `await mkdir(...)` in extractSpeciesFrames: nothing catches it
OnMkdirError(a) == Throws([a EXCEPT !.extraction = "mkdir failed"], "mkdir")

\* the frame loop: the next extractFrame is awaited, or the call returns
FrameLoop(a) ==
    IF a.frames > 0 THEN [a EXCEPT !.pc = "frame"]
    ELSE [a EXCEPT !.pc = "returned"]

\* mkdir(extractFrames) returned or threw
MkdirDone(ok) ==
    /\ attempt.pc = "mkdir"
    /\ attempt' = IF ok THEN [attempt EXCEPT !.pc = "thumbs"]
                  ELSE OnMkdirError(attempt)
    /\ UNCHANGED <<jobVars, history, batchVars, chanVars, saving>>

\* mkdir(thumbsDir) returned or threw
ThumbsDone(ok) ==
    /\ attempt.pc = "thumbs"
    /\ attempt' = IF ok THEN FrameLoop(attempt) ELSE OnMkdirError(attempt)
    /\ UNCHANGED <<jobVars, history, batchVars, chanVars, saving>>

\* extractFrame returned or threw (caught inside the loop)
FrameDone(ok) ==
    /\ attempt.pc = "frame"
    /\ attempt' = FrameLoop([attempt EXCEPT
                               !.frames = @ - 1,
                               !.extraction = IF ok THEN @ ELSE "frame failed"])
    /\ UNCHANGED <<jobVars, history, batchVars, chanVars, saving>>

\* the awaited analyzeVideoFile call of job 1 resolved or rejected
AttemptEnqueue == submitted = 0 /\ batch.status = "none" /\ EnqueueJob
AttemptResolved == attempt.pc = "returned" /\ JobAnalysisOk(1)
AttemptRejected == attempt.pc = "failed" /\ JobAnalysisFail(1)

NextAttempt ==
    \/ AttemptEnqueue
    \/ \E pr \in Providers : StartAttempt(pr)
    \/ \E ok \in BOOLEAN : DurationDone(ok)
    \/ \E ok \in BOOLEAN : Frames64Done(ok)
    \/ \E ok \in BOOLEAN, uri \in BOOLEAN : UploadDone(ok, uri)
    \/ \E st \in FileStates : Poll(st)
    \/ PollRejects
    \/ PollTimer
    \/ \E ok \in BOOLEAN, sp \in 0..1, n \in 0..MaxFrames : AnalysisDone(ok, sp, n)
    \/ \E ok \in BOOLEAN : DeleteDone(ok)
    \/ \E has \in BOOLEAN : FfmpegChecked(has)
    \/ \E ok \in BOOLEAN : MkdirDone(ok)
    \/ \E ok \in BOOLEAN : ThumbsDone(ok)
    \/ \E ok \in BOOLEAN : FrameDone(ok)
    \/ AttemptResolved
    \/ AttemptRejected
    \/ JobSaveOk(1)
    \/ JobFinally(1)

\* GET /analyze/:jobId/result and GET /batch/:batchId: the handler reads the
\* record and answers 200 (the body of the answer is not modelled); the table
\* is what it was
AfterSnapshot_Consumed(js, j) == [js EXCEPT ![j].status = "none"]
AfterSnapshot(js, j) == js

GetJobResult(j) ==
    /\ JobFound(j)
    /\ response' = "ok"
    /\ jobs' = AfterSnapshot(jobs, j)
    /\ conns' = Settled(conns)
    /\ UNCHANGED sideVars
    /\ UNCHANGED <<analysisQueue, activeJobCount, jobPc, submitted, startOrder,
                   history, batch, worker, cancelInfo, listeners>>

GetBatch ==
    /\ batch.status # "none"
    /\ response' = "ok"
    /\ conns' = Settled(conns)
    /\ UNCHANGED sideVars
    /\ UNCHANGED <<jobVars, history, batch, worker, cancelInfo, listeners>>

\* one observer of the first single job, or of the batch: it opens streams,
\* disconnects and fetches snapshots
NextObserve ==
    \/ StreamEnqueue
    \/ \E j \in JobIds, st \in Stages : JobProgress(j, st)
    \/ \E j \in JobIds : JobAnalysisOk(j)
    \/ \E j \in JobIds : JobAnalysisFail(j)
    \/ \E j \in JobIds : JobSaveOk(j)
    \/ \E j \in JobIds : JobSaveFail(j)
    \/ \E j \in JobIds : JobFinally(j)
    \/ StreamBatchCreate
    \/ \E names \in NameLists : StreamBatchAnalyze(names)
    \/ \E n \in Names : StreamBatchAdd(n)
    \/ PostBatchComplete
    \/ DeleteBatch
    \/ WorkerHistoryRead
    \/ WorkerTimer
    \/ WorkerAnalysisOk
    \/ WorkerAnalysisFail
    \/ WorkerSaveOk
    \/ WorkerSaveFail
    \/ \E j \in JobIds : ConnectJob(1, j)
    \/ ConnectBatch(1)
    \/ CloseConn(1)
    \/ \E j \in JobIds : GetJobResult(j)
    \/ GetBatch

Init ==
    /\ analysisQueue = <<>>
    /\ activeJobCount = 0
    /\ jobs = [j \in JobIds |-> [status |-> "none", stage |-> "none"]]
    /\ jobPc = [j \in JobIds |-> "idle"]
    /\ submitted = 0
    /\ startOrder = <<>>
    /\ history \in SUBSET Names
    /\ batch = NoBatch
    /\ worker = NoWorker
    /\ response = "none"
    /\ cancelInfo = [cancelled |-> FALSE, inFlight |-> {}, notTaken |-> {}]
    /\ conns = [c \in ConnIds |-> NoConn]
    /\ listeners = {}
    /\ attempt = NoAttempt
    /\ saving = {}

InitJobs == Init /\ history = {}

Spec == Init /\ [][Next]_vars
SpecJobs == InitJobs /\ [][NextJobs]_vars
SpecBatch == Init /\ [][NextBatch]_vars
SpecShared == Init /\ [][NextShared]_vars
InitStream == Init /\ history \in {{}, {1}}
SpecStream == InitStream /\ [][NextStream]_vars
SpecCross == InitStream /\ [][NextCross]_vars
SpecRequests == InitJobs /\ [][NextRequests]_vars
SpecObserve == InitStream /\ [][NextObserve]_vars
SpecLoad == InitJobs /\ [][NextLoad]_vars
SpecAttempt == InitJobs /\ [][NextAttempt]_vars

\* single jobs, a few more than the dispatcher has slots
QueueEnqueue == submitted < MaxQueueJobs /\ EnqueueJob

NextQueue ==
    \/ QueueEnqueue
    \/ \E j \in JobIds : JobAnalysisOk(j)
    \/ \E j \in JobIds : JobAnalysisFail(j)
    \/ \E j \in JobIds : JobSaveOk(j)
    \/ \E j \in JobIds : JobSaveFail(j)
    \/ \E j \in JobIds : JobFinally(j)

SpecQueue == InitJobs /\ [][NextQueue]_vars

\* every started analysis and every save returns or fails, and the event loop
\* runs the .finally callback of a settled run
FairJobs ==
    \A j \in 1..MaxQueueJobs :
        /\ WF_vars(JobAnalysisOk(j) \/ JobAnalysisFail(j))
        /\ WF_vars(JobSaveOk(j) \/ JobSaveFail(j))
        /\ WF_vars(JobFinally(j))
FairSpecQueue == SpecQueue /\ FairJobs

\* ------------------------------------------------ saveAnalysis, step by step

\* saveAnalysis is `readHistory(); unshift; writeHistory()` with an await on
\* either side of the change: `saving` holds, for every call that has read and
\* not yet written, the analyses it read.
SaveRecord(j) == {r \in saving : r.who = j}

\* history.analyses.unshift(stored)
Unshift(analyses, n) == analyses \cup {n}

\* `await readHistory()` of job j's saveAnalysis resolved
SaveRead(j) ==
    /\ jobPc[j] = "saving"
    /\ SaveRecord(j) = {}
    /\ saving' = saving \cup {[who |-> j, analyses |-> history]}
    /\ UNCHANGED <<jobVars, history, batchVars, chanVars, attempt>>

\* `await writeHistory(history)` resolved: the file holds what this call read
\* plus its own record; then completeJob
SaveWrite(j) ==
    /\ jobPc[j] = "saving"
    /\ SaveRecord(j) # {}
    /\ LET r == CHOOSE r \in SaveRecord(j) : TRUE
       IN history' = Unshift(r.analyses, JobName(j))
    /\ saving' = saving \ SaveRecord(j)
    /\ jobPc' = [jobPc EXCEPT ![j] = "settled"]
    /\ jobs' = OnJobDone(jobs, j)
    /\ Publish(<<JobEvent("complete", j, "result")>>)
    /\ UNCHANGED <<analysisQueue, activeJobCount, submitted, startOrder,
                   batchVars, attempt>>

SaveEnqueue == submitted < MaxSaveJobs /\ EnqueueJob

NextSave ==
    \/ SaveEnqueue
    \/ \E j \in JobIds : JobAnalysisOk(j)
    \/ \E j \in JobIds : JobAnalysisFail(j)
    \/ \E j \in JobIds : SaveRead(j)
    \/ \E j \in JobIds : SaveWrite(j)
    \/ \E j \in JobIds : JobFinally(j)

SpecSave == InitJobs /\ [][NextSave]_vars

\* every provider and tool call returns or throws, and the poll timer fires
FairAttempt ==
    /\ WF_vars(\E st \in FileStates : Poll(st))
    /\ WF_vars(PollTimer)
FairSpecAttempt == SpecAttempt /\ FairAttempt

\* every analysis call and every save eventually returns or fails, and the
\* event loop runs due continuations and timers
FairBatch ==
    /\ WF_vars(WorkerHistoryRead)
    /\ WF_vars(WorkerTimer)
    /\ WF_vars(WorkerAnalysisOk \/ WorkerAnalysisFail)
    /\ WF_vars(WorkerSaveOk \/ WorkerSaveFail)

FairSpecBatch == SpecBatch /\ FairBatch

\* the same, started with an empty history or with name 1 persisted
FairSpecDrain == InitStream /\ [][NextBatch]_vars /\ FairBatch

\* ======================================================================
\* Properties
\* ======================================================================

\* jobs for which analyzeVideoJob was called and whose .finally has not run
ActiveJobs == {j \in Range(startOrder) : jobPc[j] # "finished"}

NoJobFinished == \A j \in JobIds : jobPc[j] # "finished"

C2_State ==
    NoJobFinished =>
        /\ Len(startOrder) = Min(submitted, MAX_CONCURRENT_JOBS)
        /\ Len(analysisQueue) = submitted - Min(submitted, MAX_CONCURRENT_JOBS)

\* C2 (step part): when a running job finishes, exactly one waiting job is
\* started if any waits, and it is the earliest submitted of the waiting jobs.
C2_Step ==
    \A j \in JobIds :
        (jobPc[j] # "finished" /\ jobPc'[j] = "finished") =>
            IF analysisQueue # <<>>
            THEN /\ startOrder' = Append(startOrder, MinOf(Range(analysisQueue)))
                 /\ Len(analysisQueue') = Len(analysisQueue) - 1
                 /\ jobPc'[MinOf(Range(analysisQueue))] = "analyzing"
            ELSE startOrder' = startOrder

C3_FifoStart ==
    /\ \A i, k \in 1..Len(startOrder) : i < k => startOrder[i] < startOrder[k]
    /\ \A j \in Range(analysisQueue) : \A i \in Range(startOrder) : i < j

C3_Witness ==
    /\ Len(startOrder) = MaxJobs
    /\ jobPc[3] = "finished"
    /\ jobPc[1] = "analyzing"
    /\ jobPc[2] = "saving"

\* position of path p in the batch's list of added videos
VideoPos(b, p) == CHOOSE i \in 1..Len(b.videos) : b.videos[i] = p

\* C4: within a batch the video-start events follow the order in which the
\* videos were added, whatever the analysis latencies and however addVideo
\* calls interleave with processing.
C4_StartOrder ==
    /\ Range(batch.started) \subseteq Range(batch.videos)
    /\ \A i, k \in 1..Len(batch.started) :
          i < k => VideoPos(batch, batch.started[i]) < VideoPos(batch, batch.started[k])

C4_Witness ==
    /\ Len(batch.started) = 2
    /\ Len(batch.skipped) = 1
    /\ batch.started = <<1, 3>>
    /\ worker.kind = "lazy"

\* C5: within a batch at most one video is in progress at any time, and it is
\* the one the worker is suspended on.
C5_OneInProgress ==
    /\ Cardinality(InProgress(batch)) <= 1
    /\ Len(batch.started) = Cardinality(Range(batch.started))
    /\ InProgress(batch) # {} =>
          /\ worker.pc \in {"analyzing", "saving"}
          /\ InProgress(batch) = {worker.cur.path}

C5_Witness ==
    /\ InProgress(batch) = {2}
    /\ Len(batch.videoQueue) = 1
    /\ worker.kind = "lazy"
    /\ batch.completed = <<1>>

\* C6: whenever a batch (eager or lazy) has status completed, its pending queue
\* is empty, uploadsComplete is true, and it was never cancelled.
C6_CompletedMeansDrained ==
    batch.status = "completed" =>
        /\ batch.videoQueue = <<>>
        /\ batch.uploadsComplete
        /\ ~cancelInfo.cancelled

NoDuplicates(s) == Len(s) = Cardinality(Range(s))

\* C7: for a batch in status completed, completed + failed + skipped equals
\* the number of videos ever added: none lost, none counted twice.
C7_AllAccounted ==
    batch.status = "completed" =>
        /\ Len(batch.completed) + Len(batch.failed) + Len(batch.skipped)
             = Len(batch.videos)
        /\ NoDuplicates(batch.completed \o batch.failed \o batch.skipped)
        /\ Range(batch.completed \o batch.failed \o batch.skipped)
             = Range(batch.videos)

C7_Witness ==
    /\ batch.status = "completed"
    /\ Len(batch.completed) = 1
    /\ Len(batch.failed) = 1
    /\ Len(batch.skipped) = 1

\* the number of the five sets video p is in
SetsHolding(b, p) ==
    Cardinality({k \in 1..5 :
        \/ k = 1 /\ p \in QueuedPaths(b)
        \/ k = 2 /\ p \in InProgress(b)
        \/ k = 3 /\ p \in Range(b.completed)
        \/ k = 4 /\ p \in Range(b.failed)
        \/ k = 5 /\ p \in Range(b.skipped)})

\* C8: in every reachable state each video added to a batch is in exactly one
\* of pending, in-progress, completed, failed, skipped (eager and lazy).
C8_ExactlyOneSet == \A p \in Range(batch.videos) : SetsHolding(batch, p) = 1

StatusRank(st) ==
    CASE st = "none" -> 0
      [] st = "created" -> 1
      [] st = "processing" -> 2
      [] OTHER -> 3

C9_Step ==
    /\ StatusRank(batch'.status) >= StatusRank(batch.status)
    /\ batch.status \in {"completed", "cancelled"} => batch'.status = batch.status
    /\ (Terminal(batch) /\ DeleteBatch) => (response' = "rejected" /\ batch' = batch)

\* C9: a batch's status only moves forward along created -> processing ->
\* completed | cancelled; a completed or cancelled status never changes again
\* (a cancelled batch is not completed by its worker, a cancel on a completed
\* batch is rejected).
C9_StatusMonotonic == [][C9_Step]_vars

C9_Witness ==
    /\ batch.status = "cancelled"
    /\ worker.pc = "done"
    /\ cancelInfo.inFlight # {}
    /\ response = "rejected"

\* C10 (safety part): if a batch is cancelled while a video is in flight, that video's
\* analysis is not aborted (the worker stays on it until it is recorded
\* completed or failed), and no video not yet taken at the cancel is started.
C10_Safe ==
    cancelInfo.cancelled =>
        /\ Range(batch.started) \cap cancelInfo.notTaken = {}
        /\ \A p \in cancelInfo.inFlight :
              \/ p \in Range(batch.completed) \cup Range(batch.failed)
              \/ worker.pc \in {"analyzing", "saving"} /\ worker.cur.path = p
        /\ worker.pc = "done" =>
              cancelInfo.inFlight \subseteq Range(batch.completed) \cup Range(batch.failed)

\* C10: C10_Safe always holds, and the video in flight at the cancel is
\* eventually recorded completed or failed.
C10_CooperativeCancel ==
    /\ []C10_Safe
    /\ (cancelInfo.cancelled /\ cancelInfo.inFlight # {})
          ~> (cancelInfo.inFlight \subseteq
                Range(batch.completed) \cup Range(batch.failed))

C10_Witness ==
    /\ cancelInfo.cancelled
    /\ cancelInfo.inFlight = {2}
    /\ cancelInfo.notTaken = {3}
    /\ worker.pc = "done"
    /\ 2 \in Range(batch.completed)

\* a lazy batch that got no video and no markUploadsComplete (and no cancel)
NoInput ==
    /\ worker.kind = "lazy"
    /\ batch.videos = <<>>
    /\ ~batch.uploadsComplete
    /\ ~cancelInfo.cancelled

\* C11: a lazy batch with no video added and uploads never marked complete
\* never reaches completed; its worker never terminates: once it has read the
\* history it sits in the timed wait, the timer stays due, and a poll that
\* finds the queue empty ends in the timed wait again, changing nothing.
C11_IdlePolling ==
    NoInput =>
        /\ batch.status = "created"
        /\ worker.pc \in {"init", "wait"}
        /\ worker.pc = "wait" =>
              /\ ENABLED WorkerTimer
              /\ Loop(WorkerState) = WorkerState

C11_Witness ==
    /\ NoInput
    /\ worker.pc = "wait"
    /\ history # {}

\* C12: addVideo on a completed or cancelled batch answers failure and leaves
\* videos and the pending queue as they were; on any other batch it appends
\* the video to both.
C12_Step ==
    \A n \in Names :
        PostBatchAdd(n) =>
            IF batch.status \in {"completed", "cancelled"}
            THEN /\ response' = "rejected"
                 /\ batch'.videos = batch.videos
                 /\ batch'.videoQueue = batch.videoQueue
            ELSE /\ response' = "ok"
                 /\ batch'.videos = Append(batch.videos, Len(batch.videos) + 1)
                 /\ batch'.videoQueue =
                       Append(batch.videoQueue,
                              [path |-> Len(batch.videos) + 1, originalName |-> n])

C12_AddVideo == [][C12_Step]_vars

C12_Witness ==
    /\ response = "rejected"
    /\ batch.status = "completed"
    /\ worker.kind = "lazy"
    /\ Len(batch.videos) = 2

\* C13: whenever a worker takes up a video whose original name is in the
\* persisted history at that moment, the video is skipped and not analysed:
\* no video is started while its name is in the history.
C13_Step ==
    Len(batch'.started) > Len(batch.started) =>
        worker'.cur.originalName \notin history'

C13_SkipsPersisted == [][C13_Step]_vars

\* C20: when a single job fails, the failure is recorded on that job only; when
\* the failed job's run ends its slot is released once and a dispatch step
\* runs; no other job's record or position is touched, except that waiting
\* jobs are started.
C20_Step ==
    \A j \in JobIds :
        /\ (jobs[j].status # "failed" /\ jobs'[j].status = "failed") =>
              /\ jobPc'[j] = "settled"
              /\ \A k \in JobIds \ {j} : jobs'[k] = jobs[k] /\ jobPc'[k] = jobPc[k]
              /\ analysisQueue' = analysisQueue
              /\ activeJobCount' = activeJobCount
        /\ (jobs[j].status = "failed" /\ jobPc[j] = "settled" /\ jobPc'[j] = "finished") =>
              /\ jobs' = jobs
              /\ LET n == Len(startOrder') - Len(startOrder)
                 IN /\ activeJobCount' = activeJobCount - 1 + n
                    /\ n = Min(Len(analysisQueue),
                               MAX_CONCURRENT_JOBS - (activeJobCount - 1))
                    /\ analysisQueue' = SubSeq(analysisQueue, n + 1, Len(analysisQueue))
              /\ \A k \in JobIds \ {j} :
                    jobPc'[k] # jobPc[k] =>
                        (k \in Range(analysisQueue) /\ jobPc'[k] = "analyzing")

C20_State ==
    \A j \in JobIds :
        (jobs[j].status = "failed" /\ jobPc[j] = "finished") =>
            /\ j \notin ActiveJobs
            /\ activeJobCount = Cardinality(ActiveJobs)
            /\ (analysisQueue # <<>> => activeJobCount = MAX_CONCURRENT_JOBS)

C20_FailureIsolated == []C20_State /\ [][C20_Step]_vars

C20_Witness ==
    /\ jobs[1].status = "failed"
    /\ jobPc[1] = "finished"
    /\ Len(startOrder) = MAX_CONCURRENT_JOBS + 1
    /\ jobs[MAX_CONCURRENT_JOBS + 1].status = "completed"
    /\ Len(analysisQueue) = 1

\* ---------------------------------------------------- progress streams

\* the status of the entity stream c was opened for
EntityStatus(c) ==
    IF conns[c].kind = "job" THEN jobs[conns[c].id].status ELSE batch.status

ListenersOf(c) == {l \in listeners : l.conn = c}

\* the terminal event the job stream writes for a job of status st
TerminalWrite(st) ==
    IF st = "completed" THEN Written("complete", "result", 0)
    ELSE Written("error", "error", 0)

\* C14: a progress stream opened for a job that is already completed writes
\* exactly one event, the complete event with the result, and is ended; it
\* writes no progress event (for a failed job: exactly one error event); a
\* stream that ended in its own handler is never written to again.
C14_TerminalJobStream ==
    \A c \in ConnIds :
        /\ (conns[c].kind = "job" /\ conns[c].fresh
              /\ EntityStatus(c) \in {"completed", "failed"}) =>
              /\ conns[c].out = <<TerminalWrite(EntityStatus(c))>>
              /\ conns[c].st = "ended"
        /\ (conns[c].kind = "job" /\ ~conns[c].fresh /\ ~conns[c].hook) =>
              conns[c].out = <<>>

C14_Witness ==
    \E c \in ConnIds :
        /\ conns[c].kind = "job"
        /\ conns[c].fresh
        /\ EntityStatus(c) = "completed"
        /\ jobs[conns[c].id].stage = "extracting"

\* C15 as stated: a stream opened for a job or batch whose status is already
\* terminal writes the snapshot and the terminal event, is ended at once and
\* has no listener on any topic.
C15_SnapshotAndTerminal ==
    \A c \in ConnIds :
        (conns[c].fresh /\ EntityStatus(c) \in {"completed", "failed", "cancelled"}) =>
            /\ Len(conns[c].out) = 2
            /\ conns[c].out[1].event \in {"progress", "batch_status"}
            /\ conns[c].out[2].event \in {"complete", "error", "batch_complete",
                                          "batch_cancelled"}
            /\ conns[c].st = "ended"
            /\ ListenersOf(c) = {}

\* C15 amended: a stream opened for a job or batch whose status is already
\* terminal writes the terminal event (a batch stream the batch_status
\* snapshot before it, a job stream no snapshot), is ended at once, registers
\* no close hook and has no listener on any topic.
C15_TerminalAtConnect ==
    \A c \in ConnIds :
        (conns[c].fresh /\ EntityStatus(c) \in {"completed", "failed", "cancelled"}) =>
            /\ conns[c].st = "ended"
            /\ ~conns[c].hook
            /\ ListenersOf(c) = {}
            /\ Len(conns[c].out) = (IF conns[c].kind = "job" THEN 1 ELSE 2)
            /\ conns[c].out[Len(conns[c].out)].event =
                  (IF conns[c].kind = "job"
                   THEN (IF EntityStatus(c) = "completed" THEN "complete" ELSE "error")
                   ELSE (IF EntityStatus(c) = "completed" THEN "batch_complete"
                         ELSE "batch_cancelled"))
            /\ conns[c].kind = "batch" => conns[c].out[1].event = "batch_status"

C15_Witness ==
    /\ conns[1].fresh /\ conns[1].kind = "batch" /\ batch.status = "cancelled"
    /\ conns[1].st = "ended"

\* C16: once a stream has ended (terminal event, observer disconnect, or both
\* in either order) no listener of that connection is subscribed on any topic,
\* and running its cleanup again changes nothing; listeners belong to open
\* streams only.
C16_NoListenerLeft ==
    /\ \A c \in ConnIds :
          conns[c].st \in {"ended", "closed"} =>
              /\ ListenersOf(c) = {}
              /\ Cleanup(listeners, c, conns[c]) = listeners
    /\ \A l \in listeners : conns[l.conn].st = "open"

C16_Witness ==
    /\ conns[1].st = "closed" /\ conns[1].hook
    /\ conns[2].st = "ended" /\ conns[2].hook /\ ~conns[2].fresh
    /\ conns[2].out # <<>>
    /\ conns[1].id = conns[2].id
    /\ listeners = {}

\* what a stream forwarded in the latest step: (topic, payload) of each write
Forwarded(c) ==
    [i \in 1..Len(conns[c].out) |->
        [topic |-> conns[c].out[i].topic, data |-> conns[c].out[i].data]]

\* C17: in every step, each stream that was open (so its entity was not
\* terminal at connect) forwards exactly the events published for its entity
\* while it was open, each once and in publication order, the terminal event
\* included; this holds for every observer, whatever the others do.
C17_ForwardsAll ==
    \A c \in ConnIds :
        (conns[c].st \in {"open", "ended"} /\ ~conns[c].fresh) =>
            Forwarded(c) = conns[c].due

C17_Witness ==
    /\ conns[1].st = "closed" /\ conns[1].hook
    /\ conns[2].st = "ended" /\ conns[2].kind = "batch"
    /\ Len(conns[2].out) >= 2
    /\ conns[2].out[Len(conns[2].out)].event = "batch_complete"

\* the SSE event name that belongs to a topic kind
WireName(k) ==
    CASE k = "progress" -> "progress"
      [] k = "complete" -> "complete"
      [] k = "error" -> "error"
      [] k = "batch:video_start" -> "video_start"
      [] k = "batch:video_progress" -> "video_progress"
      [] k = "batch:progress" -> "batch_progress"
      [] k = "batch:video_complete" -> "video_complete"
      [] k = "batch:video_error" -> "video_error"
      [] k = "batch:video_skipped" -> "video_skipped"
      [] k = "batch:video_added" -> "video_added"
      [] k = "batch:uploads_complete" -> "uploads_complete"
      [] k = "batch:complete" -> "batch_complete"
      [] k = "batch:cancelled" -> "batch_cancelled"
      [] OTHER -> "none"

\* C18: whatever a stream forwards was published for its own job or batch id,
\* and is written under the event name of its own kind.
C18_NoCrossTalk ==
    \A c \in ConnIds :
        \A i \in 1..Len(conns[c].out) :
            conns[c].out[i].topic # NoTopic =>
                /\ conns[c].out[i].topic.id = conns[c].id
                /\ conns[c].out[i].event = WireName(conns[c].out[i].topic.kind)

C18_Witness ==
    \E c \in ConnIds :
        /\ conns[c].st = "open"
        /\ conns[c].kind = "job"
        /\ conns[c].others > 0
        /\ conns[c].out = <<>>

\* C19: a stream connecting to a job that is not terminal gets one snapshot
\* of the job's current progress and stays open; after that it is written
\* nothing but events published after the connect.
C19_NoReplay ==
    \A c \in ConnIds :
        conns[c].kind = "job" =>
            /\ (conns[c].fresh /\ EntityStatus(c) \notin {"completed", "failed"}) =>
                  /\ conns[c].out = <<Written("progress", jobs[conns[c].id].stage, 0)>>
                  /\ conns[c].st = "open"
            /\ ~conns[c].fresh =>
                  \A i \in 1..Len(conns[c].out) :
                      \E k \in 1..Len(conns[c].due) : Forwarded(c)[i] = conns[c].due[k]

C19_Witness ==
    \E c \in ConnIds :
        /\ conns[c].kind = "job"
        /\ conns[c].fresh
        /\ conns[c].st = "open"
        /\ jobs[conns[c].id].stage = "analyzing"

\* C21: when the analysis of a batch video fails, exactly that video is added
\* to failed (nothing is added to completed), and the worker goes on: it ends
\* only when the batch is cancelled or no video is left to take, and then an
\* uncancelled batch is completed; otherwise it is analysing another video or
\* waiting for more input.
C21_Step ==
    Len(batch'.failed) > Len(batch.failed) =>
        /\ batch'.failed = Append(batch.failed, worker.cur.path)
        /\ batch'.completed = batch.completed
        /\ worker'.pc \in {"done", "analyzing", "wait"}
        /\ worker'.pc = "done" =>
              /\ IsBatchCancelled(batch) \/ NotTaken(batch') = {}
              /\ ~IsBatchCancelled(batch) => batch'.status = "completed"
        /\ worker'.pc = "analyzing" =>
              /\ worker'.cur.path # worker.cur.path
              /\ worker'.cur.path \notin Range(batch'.failed)

C21_FailureGoesOn == [][C21_Step]_vars

C21_Witness ==
    /\ batch.status = "completed"
    /\ batch.failed = <<1>>
    /\ 2 \in Range(batch.completed)

\* the events logged for stream c in the latest step
Due(c) == Range(conns[c].due)

\* C22: when saving fails after a successful analysis, the single job becomes
\* failed and stays failed (it is never completed), and in a batch the video
\* is appended to failed and not to completed; the event published is the
\* error event, and no completion event is published for that job or video.
C22_State ==
    /\ \A j \in JobIds :
          jobs[j].status = "failed" => jobPc[j] \in {"settled", "finished"}
    /\ \A c \in ConnIds : \A e \in Due(c) :
          /\ (e.topic.kind = "error" /\ e.data.stage = "save failed") =>
                /\ jobs[e.topic.id].status = "failed"
                /\ \A f \in Due(c) : f.topic.kind # "complete"
          /\ (e.topic.kind = "batch:video_error" /\ e.data.stage = "save failed") =>
                /\ e.data.video \in Range(batch.failed)
                /\ e.data.video \notin Range(batch.completed)
                /\ \A f \in Due(c) :
                      ~(f.topic.kind = "batch:video_complete"
                          /\ f.data.video = e.data.video)

C22_Step ==
    /\ \A j \in JobIds :
          /\ JobSaveFail(j) => jobs'[j].status = "failed"
          /\ jobs[j].status = "failed" => jobs'[j].status = "failed"
    /\ WorkerSaveFail =>
          /\ batch'.failed = Append(batch.failed, worker.cur.path)
          /\ batch'.completed = batch.completed

C22_SaveFailureFails == []C22_State /\ [][C22_Step]_vars

C22_Witness ==
    /\ \E c \in ConnIds : \E e \in Due(c) :
          /\ conns[c].kind = "job"
          /\ e.topic.kind = "error"
          /\ e.data.stage = "save failed"
          /\ conns[c].st = "ended"

\* C23: once a batch is completed or cancelled, no later operation changes any
\* field of the batch record.
C23_TerminalImmutable == [][Terminal(batch) => batch' = batch]_vars

\* the fields of a cancelled batch that a later step may still write: the
\* video that was in flight is recorded, and uploads may be marked complete
C23_LateWrites ==
    /\ \/ /\ batch'.completed = batch.completed
          /\ batch'.failed = batch.failed
       \/ /\ worker.pc \in {"analyzing", "saving"}
          /\ worker.cur.path \in Range(batch.started)
          /\ \/ /\ batch'.completed = Append(batch.completed, worker.cur.path)
                /\ batch'.failed = batch.failed
             \/ /\ batch'.failed = Append(batch.failed, worker.cur.path)
                /\ batch'.completed = batch.completed
    /\ batch'.uploadsComplete \in {batch.uploadsComplete, TRUE}

\* C23 (amended): a completed batch record never changes again; a cancelled
\* batch keeps its status, videos, pending queue, started and skipped videos,
\* and only records the video that was in flight (in completed or failed) and
\* a later uploads-complete mark.
C23_Step ==
    /\ batch.status = "completed" => batch' = batch
    /\ batch.status = "cancelled" =>
          /\ batch' = [batch EXCEPT !.completed = batch'.completed,
                                    !.failed = batch'.failed,
                                    !.uploadsComplete = batch'.uploadsComplete]
          /\ C23_LateWrites
C23_TerminalFrozen == [][C23_Step]_vars

\* a cancelled batch whose in-flight video was recorded after the cancel and
\* whose uploads were marked complete after it
C23_Witness ==
    /\ batch.status = "cancelled"
    /\ worker.pc = "done"
    /\ worker.kind = "lazy"
    /\ batch.uploadsComplete
    /\ cancelInfo.cancelled
    /\ cancelInfo.inFlight # {}
    /\ cancelInfo.inFlight \subseteq Range(batch.completed)

\* C24: the uploadsComplete flag of a batch only goes from false to true and
\* never back: a step that finds it true leaves it true (a repeated
\* markUploadsComplete included), and the only step that sets it on an existing
\* batch is markUploadsComplete.
C24_Step ==
    batch.status # "none" =>
        /\ batch.uploadsComplete => batch'.uploadsComplete
        /\ (~batch.uploadsComplete /\ batch'.uploadsComplete) => PostBatchComplete
        /\ PostBatchComplete => batch'.uploadsComplete
C24_FlagMonotonic == [][C24_Step]_vars

\* markUploadsComplete has just been called on a batch whose flag was already
\* true (an eager batch is created with it true)
C24_Witness ==
    /\ worker.kind = "eager"
    /\ batch.uploadsComplete
    /\ \E c \in ConnIds : \E e \in Due(c) : e.topic.kind = "batch:uploads_complete"

\* the job table, the batch table, the waiting queue and the workers
Tables == <<jobs, jobPc, submitted, startOrder, analysisQueue, activeJobCount,
            batch, worker>>

\* a step that handles a request failing validation: no uploaded file or an
\* unknown model (POST /analyze), an unknown model (POST /batch/create), a
\* missing path (POST /batch/:id/add), a missing or empty video list or an
\* unknown model (POST /batch/analyze)
MalformedRequest ==
    \/ \E req \in AnalyzeRequests :
          (~req.file \/ ~req.model) /\ PostAnalyze(req)
    \/ \E req \in BatchCreateRequests : ~req.model /\ PostBatchCreateRequest(req)
    \/ \E req \in BatchAddRequests : ~req.path /\ PostBatchAddRequest(req)
    \/ \E req \in BatchAnalyzeRequests :
          /\ \/ ~req.videos.present
             \/ ~req.videos.isArray
             \/ req.videos.items = <<>>
             \/ ~req.model
          /\ PostBatchAnalyzeRequest(req)

\* C25: a request rejected for validation creates no job and no batch,
\* enqueues nothing and starts no worker: the job table, the batch table, the
\* waiting queue and the workers are unchanged, and the answer is a rejection.
C25_Step == MalformedRequest => (UNCHANGED Tables /\ response' = "rejected")
C25_RejectedChangesNothing == [][C25_Step]_vars

\* a request was rejected and there is still no job, no batch, no worker
C25_Witness ==
    /\ response = "rejected"
    /\ submitted = 0
    /\ \A j \in JobIds : jobs[j].status = "none"
    /\ analysisQueue = <<>>
    /\ batch.status = "none"
    /\ worker = NoWorker

\* C26: enqueueJob never rejects and does not wait for the analysis: in one
\* step it creates the job record, appends the job at the tail of the waiting
\* queue and runs one dispatch step (the job is started if a slot is free,
\* else it is the last waiter and the jobs before it keep their order), so
\* every submitted job is found by the snapshot and the progress stream, also
\* while it waits for a slot.
C26_State ==
    /\ submitted < MaxJobs => ENABLED EnqueueJob
    /\ \A j \in 1..submitted : JobFound(j)
    /\ \A i \in 1..Len(analysisQueue) :
          JobFound(analysisQueue[i]) /\ jobPc[analysisQueue[i]] = "idle"

C26_Step ==
    submitted' = submitted + 1 =>
        LET j == submitted + 1
        IN /\ ~JobFound(j)
           /\ jobs'[j].status = "processing"
           /\ \A i \in JobIds \ {j} : jobs'[i] = jobs[i]
           /\ IF activeJobCount < MAX_CONCURRENT_JOBS
              THEN /\ jobPc'[j] = "analyzing"
                   /\ analysisQueue' = analysisQueue
                   /\ activeJobCount' = activeJobCount + 1
              ELSE /\ jobPc'[j] = "idle"
                   /\ analysisQueue' = Append(analysisQueue, j)
                   /\ activeJobCount' = activeJobCount

C26_EnqueueReturns == []C26_State /\ [][C26_Step]_vars

\* a job that waits for a slot behind another waiter and is found
C26_Witness ==
    /\ Len(analysisQueue) = 2
    /\ activeJobCount = MAX_CONCURRENT_JOBS
    /\ JobFound(analysisQueue[2])
    /\ jobs[analysisQueue[2]].status = "processing"

\* a step of an observer: a stream is opened or closed, or a snapshot is
\* fetched
ObserverStep ==
    \/ \E c \in ConnIds : \E j \in JobIds : ConnectJob(c, j)
    \/ \E c \in ConnIds : ConnectBatch(c)
    \/ \E c \in ConnIds : CloseConn(c)
    \/ \E j \in JobIds : GetJobResult(j)
    \/ GetBatch

\* the records, the waiting queue, the active count and the workers
Records == <<jobs, jobPc, submitted, startOrder, analysisQueue, activeJobCount,
             history, batch, worker, cancelInfo>>

\* what an event says of the job record it is about, against the record r
Agrees(e, r) ==
    CASE e.topic.kind = "progress" -> r.status = "processing" /\ r.stage = e.data.stage
      [] e.topic.kind = "complete" -> r.status = "completed"
      [] e.topic.kind = "error" -> r.status = "failed"
      [] OTHER -> TRUE

\* C27: opening a progress stream, disconnecting from it and fetching a
\* snapshot change no job record, no batch record, not the waiting queue and
\* not the active count; in a step in which a stream receives events, a job
\* event leaves the batch and every other job as they were and the job is as
\* its publisher wrote it, and a batch event leaves every job as it was.
C27_Step ==
    /\ UNCHANGED Records \/ ~ObserverStep
    /\ \A c \in ConnIds : \A i \in 1..Len(conns'[c].due) :
          LET e == conns'[c].due[i]
          IN IF e.topic.id \in JobIds
             THEN /\ \A j \in JobIds \ {e.topic.id} : jobs'[j] = jobs[j]
                  /\ batch' = batch
                  /\ i = Len(conns'[c].due) => Agrees(e, jobs'[e.topic.id])
             ELSE jobs' = jobs
C27_ObserversChangeNothing == [][C27_Step]_vars

\* a snapshot of a running job was fetched while its stream is open and has
\* just received a progress event
C27_Witness ==
    /\ response = "ok"
    /\ conns[1].st = "open"
    /\ conns[1].kind = "job"
    /\ jobs[conns[1].id].status = "processing"
    /\ \E e \in Due(1) : e.topic.kind = "progress"

\* the videos of b recorded completed, failed or skipped
Recorded(b) == Range(b.completed) \cup Range(b.failed) \cup Range(b.skipped)

\* C28: an eager batch needs no markUploadsComplete call: it is created with
\* the flag true, and unless it is cancelled it is completed as soon as every
\* listed video is recorded completed, failed or skipped, which eventually
\* happens when every analysis and save returns or fails.
C28_Safe ==
    worker.kind = "eager" =>
        /\ batch.uploadsComplete
        /\ batch.status = "completed" => Range(batch.videos) \subseteq Recorded(batch)
        /\ (batch.status # "cancelled" /\ Range(batch.videos) \subseteq Recorded(batch))
              => batch.status = "completed"
C28_EagerCompletes ==
    /\ []C28_Safe
    /\ (worker.kind = "eager") ~> (batch.status \in {"completed", "cancelled"})

C28_Witness ==
    /\ worker.kind = "eager"
    /\ batch.status = "completed"
    /\ Len(batch.videos) = MaxVideos
    /\ batch.completed # <<>>
    /\ batch.failed # <<>>
    /\ batch.skipped # <<>>

\* C29: a lazy batch that is not cancelled: before markUploadsComplete the
\* worker never stops (an empty queue makes it wait) and the batch is not
\* completed; once uploads are marked complete, and every analysis and save
\* returns or fails, the batch is eventually completed (or cancelled by
\* then), and a completed lazy batch has an empty pending queue, every video
\* recorded, and a worker that has ended.
C29_Safe ==
    worker.kind = "lazy" =>
        /\ (~batch.uploadsComplete /\ batch.status # "cancelled") =>
              /\ worker.pc # "done"
              /\ batch.status # "completed"
        /\ batch.status = "completed" =>
              /\ batch.videoQueue = <<>>
              /\ Range(batch.videos) \subseteq Recorded(batch)
              /\ worker.pc = "done"
C29_LazyDrains ==
    /\ []C29_Safe
    /\ (worker.kind = "lazy" /\ batch.uploadsComplete)
          ~> (batch.status \in {"completed", "cancelled"})

\* a lazy batch completed after its uploads were marked, with every video
\* added, and some analysed and some skipped
C29_Witness ==
    /\ worker.kind = "lazy"
    /\ batch.status = "completed"
    /\ Len(batch.videos) = MaxVideos
    /\ batch.completed # <<>>
    /\ batch.skipped # <<>>

\* the analyzeVideoFile calls in flight: those of started single jobs and the
\* one of the batch worker
CallsInFlight ==
    Cardinality({j \in JobIds : jobPc[j] = "analyzing"})
      + (IF worker.pc = "analyzing" THEN 1 ELSE 0)

\* C30: single jobs and batch workers counted together, at most
\* MAX_CONCURRENT_JOBS analysis calls are in flight at the same time.
C30_GlobalLimit == CallsInFlight <= MAX_CONCURRENT_JOBS

\* waitForFileActive is running: a files.get call or the interval timer is
\* pending
Polling == attempt.pc \in {"poll", "wait"}

\* C31: the readiness poll ends after at most maxAttempts polls: a poll that
\* reports ACTIVE returns the file at once (the provider analysis is called
\* next), a poll that reports FAILED fails at once, any other state waits one
\* interval; the timeout error comes exactly after maxAttempts polls that
\* reported neither; and the poll always ends.
C31_State ==
    /\ attempt.polls <= maxAttempts
    /\ attempt.pc = "poll" => attempt.polls < maxAttempts
    /\ attempt.error = "timeout" => attempt.polls = maxAttempts
    /\ attempt.error = "processing failed" => attempt.polls \in 1..maxAttempts

C31_Step ==
    /\ Poll("ACTIVE") => attempt'.pc = "analyze" /\ attempt'.error = "none"
    /\ Poll("FAILED") =>
          attempt'.pc = "failed" /\ attempt'.error = "processing failed"
    /\ Poll("PROCESSING") => attempt'.pc = "wait"
    /\ attempt.pc = "wait" =>
          \/ attempt'.pc = "poll" /\ attempt.polls < maxAttempts
          \/ /\ attempt'.pc = "failed"
             /\ attempt'.error = "timeout"
             /\ attempt.polls = maxAttempts
    /\ Polling => attempt'.polls \in {attempt.polls, attempt.polls + 1}

C31_PollTerminates ==
    /\ []C31_State
    /\ [][C31_Step]_vars
    /\ Polling ~> ~Polling

\* the poll timed out after maxAttempts polls
C31_Witness ==
    /\ attempt.pc = "failed"
    /\ attempt.error = "timeout"
    /\ attempt.polls = maxAttempts

\* C32: whatever way frame extraction fails after a successful analysis (no
\* ffmpeg, a frame that fails to extract, an output directory that cannot be
\* created), analyzeVideoFile still returns the result and the job is not
\* failed.
C32_ExtractionBestEffort ==
    (attempt.analysis = "ok" /\ attempt.extraction # "none") =>
        /\ attempt.pc # "failed"
        /\ jobs[1].status # "failed"

\* the analyzeVideoFile call has ended (returned or rejected)
AttemptEnded == attempt.pc \in {"returned", "failed"}

\* C33: the file uploaded to the Gemini provider is deleted from it by the
\* time the analysis attempt ends, whether it ends with a result, with an
\* analysis error, or with a failure or timeout of the wait for ACTIVE
\* (delete calls that themselves fail are left aside).
C33_UploadDeleted ==
    (/\ AttemptEnded
     /\ attempt.error \in {"none", "analysis", "processing failed", "timeout"}
     /\ ~attempt.deleteFailed)
        => ~attempt.remote

\* C34: when every started analysis (and save) returns or fails, every
\* enqueued single job is eventually started and eventually completed or
\* failed: the run of every enqueued job eventually ends, and a run that has
\* ended was started and left its job completed or failed.
C34_Ended ==
    \A j \in JobIds :
        jobPc[j] = "finished" =>
            /\ j \in Range(startOrder)
            /\ jobs[j].status \in {"completed", "failed"}
C34_EveryJobEnds ==
    /\ []C34_Ended
    /\ \A j \in 1..MaxQueueJobs :
          (jobs[j].status # "none") ~> (jobPc[j] = "finished")

\* the last job waited for a slot, was started and has ended
C34_Witness ==
    /\ submitted = MaxQueueJobs
    /\ Len(startOrder) = MaxQueueJobs
    /\ startOrder[MaxQueueJobs] = MaxQueueJobs
    /\ jobPc[MaxQueueJobs] = "finished"
    /\ jobs[MaxQueueJobs].status = "completed"
    /\ jobs[1].status = "failed"

TerminalJob(j) == jobs[j].status \in {"completed", "failed"}

\* C36 (state part): a job whose run has settled is completed or failed, and
\* only a started job whose run has settled is.
C36_State ==
    \A j \in JobIds :
        /\ jobPc[j] \in {"settled", "finished"} => TerminalJob(j)
        /\ TerminalJob(j) =>
              /\ j \in Range(startOrder)
              /\ jobPc[j] \in {"settled", "finished"}

\* C36 (step part): the terminal transition is taken by the job's own run, as
\* it settles, and afterwards the job record never changes: a completed job
\* is never failed later, nor a failed one completed.
C36_Step ==
    \A j \in JobIds :
        /\ (~TerminalJob(j) /\ jobs'[j].status \in {"completed", "failed"}) =>
              /\ jobPc[j] \in {"analyzing", "saving"}
              /\ jobPc'[j] = "settled"
        /\ TerminalJob(j) => jobs'[j] = jobs[j]

\* C36: every started single job gets exactly one terminal transition,
\* completeJob or failJob, and its record is fixed from then on.
C36_OneTerminal == []C36_State /\ [][C36_Step]_vars

\* one job completed and one failed, both runs over, after progress updates
C36_Witness ==
    /\ jobs[1].status = "failed"
    /\ jobs[1].stage = "analyzing"
    /\ jobs[2].status = "completed"
    /\ jobPc[1] = "finished"
    /\ jobPc[2] = "finished"

\* the original name under which the worker tests a video it takes up
TakenName(p) ==
    IF worker.kind = "lazy"
    THEN (CHOOSE v \in Range(batch.videoQueue) : v.path = p).originalName
    ELSE EagerName(worker, p)

\* C37: a batch video is marked skipped only if its original name is in the
\* persisted history when it is skipped; an earlier video of the same batch
\* with the same name, whose analysis failed, does not make it skipped.
C37_Step ==
    \A p \in Range(batch'.skipped) \ Range(batch.skipped) :
        TakenName(p) \in history'

C37_SkippedOnlyIfPersisted == [][C37_Step]_vars

\* videos the worker has taken up: started or skipped
Treated(b) == Range(b.started) \cup Range(b.skipped)

\* C38 (safety part): a video added with success and not yet started or
\* skipped is still in the pending queue; a completed batch has no such
\* video, and a worker that has ended leaves one only in a cancelled batch.
C38_Safe ==
    /\ NotTaken(batch) \subseteq QueuedPaths(batch)
    /\ batch.status = "completed" => Range(batch.videos) \subseteq Treated(batch)
    /\ (worker.pc = "done" /\ NotTaken(batch) # {}) => batch.status = "cancelled"

\* C38: every video that addVideo accepted is eventually started or skipped,
\* unless the batch is cancelled; it is never left unprocessed in a completed
\* batch, also when it is added after markUploadsComplete or while the worker
\* is waiting on an empty queue.
C38_AddedIsProcessed ==
    /\ []C38_Safe
    /\ \A p \in 1..MaxVideos :
          (p \in Range(batch.videos))
             ~> (p \in Treated(batch) \/ batch.status = "cancelled")

\* the worker is waiting on the queue it found empty before the uploads were
\* marked complete; since then the uploads were marked complete and a video
\* was accepted, and an earlier video has been processed
C38_Witness ==
    /\ worker.kind = "lazy"
    /\ worker.pc = "wait"
    /\ batch.uploadsComplete
    /\ batch.status = "processing"
    /\ NotTaken(batch) # {}
    /\ Treated(batch) # {}

\* C39: with several saveAnalysis calls in flight, every job that ends
\* completed has its result in the persisted history: no record is lost to
\* two interleaved read-modify-write sequences on the history file.
C39_NoLostRecord ==
    \A j \in JobIds :
        (jobs[j].status = "completed" /\ saving = {}) => JobName(j) \in history

====
